---- MODULE Spec2Model ----
(***************************************************************************)
(* Model of setup.py, the environment bootstrap script: the version gate,  *)
(* the dependency checker, the launcher probe, the credential scanner and  *)
(* the template writer, run in sequence by main() under the __main__       *)
(* driver.  Text is modelled as sequences of one-character strings where   *)
(* the code inspects it (slicing, len, "in", the template file) and as     *)
(* sequences of string tokens for the fixed parts of console lines.        *)
(***************************************************************************)
EXTENDS Integers, Sequences, FiniteSets, TLC

\* ------------------------------------------------------------------ bounds
\* The dependency loop is explored over the first NumPackages table entries.
NumPackages == 3
\* Interpreter versions explored: majors 2..MaxMajor, minors 7..MaxMinor.
MaxMajor == 4
MaxMinor == 8
\* Number of times the script is invoked against the same working directory.
MaxRuns == 2

\* ------------------------------------------------------- program constants
required_major == 3
required_minor == 8
PreviewLen == 8

\* Status glyphs (ASCII stand-ins for the check mark, cross and warning sign).
GlyphOk == "[OK]"
GlyphFail == "[X]"
GlyphWarn == "[!]"

required_packages ==
  << <<"streamlit", "streamlit">>,
     <<"google-generativeai", "google.generativeai">>,
     <<"langchain", "langchain">>,
     <<"langchain-community", "langchain_community">>,
     <<"langchain-core", "langchain_core">>,
     <<"langchain-qdrant", "langchain_qdrant">>,
     <<"qdrant-client", "qdrant_client">>,
     <<"pypdf", "pypdf">>,
     <<"beautifulsoup4", "bs4">>,
     <<"agno", "agno">>,
     <<"requests", "requests">>,
     <<"numpy", "numpy">>,
     <<"python-dotenv", "dotenv">> >>

\* The table entries the dependency loop visits in this model.
packages == SubSeq(required_packages, 1, NumPackages)

env_vars ==
  << <<"GOOGLE_API_KEY",
       <<"G","o","o","g","l","e"," ","A","I"," ","A","P","I"," ","K","e","y">> >>,
     <<"QDRANT_API_KEY",
       <<"Q","d","r","a","n","t"," ","A","P","I"," ","K","e","y">> >>,
     <<"QDRANT_URL",
       <<"Q","d","r","a","n","t"," ","U","R","L">> >>,
     <<"EXA_API_KEY",
       <<"E","x","a"," ","A","I"," ","A","P","I"," ","K","e","y"," ",
         "(","O","p","t","i","o","n","a","l",")">> >> >>

OptionalMarker == <<"(","O","p","t","i","o","n","a","l",")">>
Ellipsis == <<".",".",".">>

\* The text written to .env.template, one entry per line.
env_template ==
  <<
     <<"#"," ","A","P","I"," ","K","e","y","s"," ","f","o","r"," ","A","g","e","n","t","i","c",
       " ","R","A","G"," ","A","p","p","l","i","c","a","t","i","o","n">>,
     <<"#"," ","C","o","p","y"," ","t","h","i","s"," ","f","i","l","e"," ","t","o"," ",".","e",
       "n","v"," ","a","n","d"," ","f","i","l","l"," ","i","n"," ","y","o","u","r"," ","a","c",
       "t","u","a","l"," ","A","P","I"," ","k","e","y","s">>,
     <<>>,
     <<"#"," ","R","e","q","u","i","r","e","d",":"," ","G","o","o","g","l","e"," ","A","I"," ",
       "A","P","I"," ","K","e","y">>,
     <<"#"," ","G","e","t"," ","f","r","o","m",":"," ","h","t","t","p","s",":","/","/","a","i",
       "s","t","u","d","i","o",".","g","o","o","g","l","e",".","c","o","m","/">>,
     <<"G","O","O","G","L","E","_","A","P","I","_","K","E","Y","=","y","o","u","r","_","g","o",
       "o","g","l","e","_","a","p","i","_","k","e","y","_","h","e","r","e">>,
     <<>>,
     <<"#"," ","R","e","q","u","i","r","e","d",":"," ","Q","d","r","a","n","t"," ","V","e","c",
       "t","o","r"," ","D","a","t","a","b","a","s","e">>,
     <<"#"," ","G","e","t"," ","f","r","o","m",":"," ","h","t","t","p","s",":","/","/","c","l",
       "o","u","d",".","q","d","r","a","n","t",".","i","o","/">>,
     <<"Q","D","R","A","N","T","_","A","P","I","_","K","E","Y","=","y","o","u","r","_","q","d",
       "r","a","n","t","_","a","p","i","_","k","e","y","_","h","e","r","e">>,
     <<"Q","D","R","A","N","T","_","U","R","L","=","h","t","t","p","s",":","/","/","y","o","u",
       "r","-","c","l","u","s","t","e","r",".","c","l","o","u","d",".","q","d","r","a","n","t",
       ".","i","o",":","6","3","3","3">>,
     <<>>,
     <<"#"," ","O","p","t","i","o","n","a","l",":"," ","E","x","a"," ","A","I"," ","f","o","r",
       " ","w","e","b"," ","s","e","a","r","c","h">>,
     <<"#"," ","G","e","t"," ","f","r","o","m",":"," ","h","t","t","p","s",":","/","/","e","x",
       "a",".","a","i","/">>,
     <<"E","X","A","_","A","P","I","_","K","E","Y","=","y","o","u","r","_","e","x","a","_","a",
       "p","i","_","k","e","y","_","h","e","r","e">>
  >>

\* ------------------------------------------------------------ environment
\* os.getenv results: None, or a string of characters.
None == <<"<None>">>
Secret ==
  <<"A","I","z","a","S","y","D","-","9","t","Q","w","7","x","K","m","4","p","R","e">>
Chars(n) == SubSeq(Secret, 1, n)
EnvValues == { None, <<>>, Chars(5), Chars(8), Chars(9), Chars(20) }

\* What the launcher prints for "streamlit version".
LauncherStdout ==
  <<"S","t","r","e","a","m","l","i","t",","," ","v","e","r","s","i","o","n"," ",
    "1",".","3","2",".","0","\n">>

\* A pre-existing .env.template with unrelated content.
OldContent == << <<"O","L","D","=","1">>, <<"#"," ","s","t","a","l","e">> >>

NoFile == [exists |-> FALSE, content |-> <<>>]
File(lines) == [exists |-> TRUE, content |-> lines]

\* --------------------------------------------------------------- exceptions
\* Python's class hierarchy for the exceptions the script can meet.
BaseOf ==
  [ e \in { "KeyboardInterrupt", "Exception", "ImportError", "ModuleNotFoundError",
            "RuntimeError", "OSError", "FileNotFoundError", "PermissionError",
            "SubprocessError", "CalledProcessError", "TimeoutExpired" } |->
      CASE e = "KeyboardInterrupt"   -> "BaseException"
        [] e = "Exception"           -> "BaseException"
        [] e = "ImportError"         -> "Exception"
        [] e = "ModuleNotFoundError" -> "ImportError"
        [] e = "RuntimeError"        -> "Exception"
        [] e = "OSError"             -> "Exception"
        [] e = "FileNotFoundError"   -> "OSError"
        [] e = "PermissionError"     -> "OSError"
        [] e = "SubprocessError"     -> "Exception"
        [] e = "CalledProcessError"  -> "SubprocessError"
        [] e = "TimeoutExpired"      -> "SubprocessError" ]

RECURSIVE IsInstance(_, _)
IsInstance(exc, cls) ==
  \/ exc = cls
  \/ exc \in DOMAIN BaseOf /\ IsInstance(BaseOf[exc], cls)

\* Outcomes of importlib.import_module: "none" is a successful import.
ProbeOutcomes == { "none", "ModuleNotFoundError", "ImportError", "RuntimeError",
                   "KeyboardInterrupt" }
\* Outcomes of subprocess.check_call for pip: "none" is exit status 0,
\* CalledProcessError is a non-zero exit status.
PipOutcomes == { "none", "CalledProcessError", "PermissionError", "KeyboardInterrupt" }
\* Outcomes of subprocess.run for the launcher: an exception, or an exit status.
LauncherExceptions == { "FileNotFoundError", "TimeoutExpired", "KeyboardInterrupt" }
LauncherReturnCodes == { 0, 1 }
\* Outcomes of open()/write() on the template path.
WriteOutcomes == { "none", "PermissionError", "OSError", "KeyboardInterrupt" }

\* ------------------------------------------------------------ text helpers
RECURSIVE Join(_, _)
Join(sep, items) ==
  IF items = <<>> THEN <<>>
  ELSE IF Len(items) = 1 THEN <<items[1]>>
  ELSE <<items[1], sep>> \o Join(sep, Tail(items))

\* needle in haystack, on character sequences
Contains(haystack, needle) ==
  \E k \in 0..(Len(haystack) - Len(needle)) :
     SubSeq(haystack, k + 1, k + Len(needle)) = needle

Whitespace == { " ", "\n", "\t", "\r" }
RECURSIVE Strip(_)
Strip(s) ==
  IF s = <<>> THEN s
  ELSE IF s[1] \in Whitespace THEN Strip(Tail(s))
  ELSE IF s[Len(s)] \in Whitespace THEN Strip(SubSeq(s, 1, Len(s) - 1))
  ELSE s

print_header(text) ==
  << <<"\n", "=*60">>, <<"  ", text>>, <<"=*60">> >>

print_step(step, text) ==
  << <<"\n", ToString(step), ". ", text>>, <<"-*40">> >>

\* ------------------------------------------------------------------- state
VARIABLES
  pc,                \* position of main(): the stage about to run, or "exited"
  version,           \* sys.version_info of the interpreter
  fs,                \* the file .env.template in the working directory
  runs,              \* invocations of the script so far
  executed,          \* stages entered by this run, in order
  out,               \* console lines printed since the last step header
  idx,               \* loop position inside the current stage
  results,           \* check_and_install_dependencies' result list
  probes,            \* import-probe outcome seen for each visited package
  installs,          \* pip invocations issued for each visited package
  launcher,          \* what the launcher invocation did, and test_streamlit's return
  env_seen,          \* os.getenv values read by the credential scanner
  written,           \* what the template write did, and create_env_template's return
  failed,            \* stages of this run that reported an advisory failure
  interrupted,       \* a KeyboardInterrupt was raised during this run
  raised,            \* exception that reached the __main__ driver, or "none"
  main_return,       \* "True" / "False" once main() returned, else "none"
  exit_status        \* process exit status once exited, else -1

vars == << pc, version, fs, runs, executed, out, idx, results, probes, installs,
           launcher, env_seen, written, failed, interrupted, raised,
           main_return, exit_status >>

Stages == << "VersionGate", "DependencyChecker", "RunnerProbe",
             "CredentialScanner", "TemplateWriter" >>

NoLauncher == [called |-> FALSE, exc |-> "none", returncode |-> -1, ret |-> "none"]
NoWrite == [called |-> FALSE, exc |-> "none", prior |-> NoFile, ret |-> "none"]

Versions ==
  [major : 2..MaxMajor, minor : 7..MaxMinor, micro : {0}]

\* A wider range of version triples, for the version gate taken on its own.
WideVersions ==
  [major : 0..(MaxMajor + 1), minor : 0..(MaxMinor + 4), micro : 0..2]

\* State of a freshly started process.
Fresh ==
  /\ pc = "version"
  /\ executed = <<>>
  /\ out = <<>>
  /\ idx = 1
  /\ results = <<>>
  /\ probes = <<>>
  /\ installs = <<>>
  /\ launcher = NoLauncher
  /\ env_seen = <<>>
  /\ written = NoWrite
  /\ failed = {}
  /\ interrupted = FALSE
  /\ raised = "none"
  /\ main_return = "none"
  /\ exit_status = -1

Init ==
  /\ Fresh
  /\ version \in Versions
  /\ fs \in { NoFile, File(OldContent) }
  /\ runs = 1

\* ------------------------------------------------------------ __main__ driver
\* Exit status the driver produces: main() returned ret, or exc escaped main().
driver_exit_status_inspecting(ret, exc) ==
  IF exc = "none" THEN (IF ret = "True" THEN 0 ELSE 1) ELSE 1

driver_exit_status(ret, exc) ==
  IF exc = "none" THEN 0
  ELSE IF IsInstance(exc, "KeyboardInterrupt") THEN 1
  ELSE IF IsInstance(exc, "Exception") THEN 1
  ELSE 1

driver_message(exc) ==
  IF exc = "none" THEN <<>>
  ELSE IF IsInstance(exc, "KeyboardInterrupt")
       THEN << <<"\n\n", GlyphFail, " Setup interrupted by user">> >>
       ELSE << <<"\n\n", GlyphFail, " Setup failed with error: ", exc>> >>

\* main() ends (by return or by an escaping exception) and the driver exits.
Exit(ret, exc, lines) ==
  /\ pc' = "exited"
  /\ main_return' = ret
  /\ raised' = exc
  /\ exit_status' = driver_exit_status(ret, exc)
  /\ out' = lines \o driver_message(exc)

\* ---------------------------------------------------------- 1. VersionGate
check_python_version_exact_major(v) ==
  v.major = required_major /\ v.minor >= required_minor

check_python_version(v) ==
  v.major >= required_major /\ v.minor >= required_minor

check_python_version_lines(v) ==
  << <<"Python version: ", ToString(v.major), ".", ToString(v.minor), ".",
       ToString(v.micro)>> >>
  \o (IF check_python_version(v)
      THEN << <<GlyphOk, " Python version is compatible">> >>
      ELSE << <<GlyphFail, " Python ", ToString(required_major), ".",
                ToString(required_minor), "+ is required">> >>)

\* main()'s decision after the version check: TRUE means return False now.
main_aborts_never(ok) == FALSE

main_aborts(ok) == ~ok

SetupFailedLine == <<"\n", GlyphFail, " Setup failed: Incompatible Python version">>

VersionGate ==
  /\ pc = "version"
  /\ executed' = Append(executed, "VersionGate")
  /\ LET ok == check_python_version(version)
         lines == print_header("Agentic RAG Setup and Environment Check")
                  \o print_step(1, "Checking Python Version")
                  \o check_python_version_lines(version)
     IN IF main_aborts(ok)
        THEN Exit("False", "none", Append(lines, SetupFailedLine))
        ELSE /\ pc' = "deps"
             /\ out' = lines
             /\ UNCHANGED << main_return, raised, exit_status >>
  /\ UNCHANGED << version, fs, runs, idx, results, probes, installs, launcher,
                  env_seen, written, failed, interrupted >>

\* ------------------------------------------------------ 2. DependencyChecker
\* except clause of the import probe
probe_handled(exc) == IsInstance(exc, "ImportError")

\* except clause of install_package
install_package_handled_none(exc) == FALSE

install_package_handled(exc) == IsInstance(exc, "CalledProcessError")

\* Number of install_package calls the loop body makes for one probe outcome.
install_calls_always(probe) == 1

install_calls(probe) == IF probe_handled(probe) THEN 1 ELSE 0

\* The entry the loop body appends for a package, given whether it ended up usable.
result_entry(package_name, success) == <<package_name, success>>

\* One iteration of the loop over required_packages: the probe, and the
\* install if the loop asks for one.  Yields the lines printed, the entries
\* appended, the pip invocations made and the exception that escapes, if any.
check_one(package_name, probe, pip) ==
  LET calls == install_calls(probe)
      probed == IF probe = "none"
                THEN [lines |-> << <<GlyphOk, " ", package_name, " is installed">> >>,
                      entries |-> << result_entry(package_name, TRUE) >>,
                      exc |-> "none"]
                ELSE IF probe_handled(probe)
                THEN [lines |-> << <<GlyphFail, " ", package_name,
                                     " is not installed. Installing...">> >>,
                      entries |-> <<>>,
                      exc |-> "none"]
                ELSE [lines |-> <<>>, entries |-> <<>>, exc |-> probe]
      installed == IF calls = 0 \/ probed.exc # "none"
                   THEN probed
                   ELSE IF pip = "none"
                   THEN [lines |-> Append(probed.lines,
                                     <<GlyphOk, " Successfully installed ", package_name>>),
                         entries |-> Append(probed.entries,
                                            result_entry(package_name, TRUE)),
                         exc |-> "none"]
                   ELSE IF install_package_handled(pip)
                   THEN [lines |-> Append(probed.lines,
                                     <<GlyphFail, " Failed to install ", package_name>>),
                         entries |-> Append(probed.entries,
                                            result_entry(package_name, FALSE)),
                         exc |-> "none"]
                   ELSE [lines |-> probed.lines, entries |-> probed.entries, exc |-> pip]
      invoked == IF probed.exc # "none" THEN 0 ELSE calls
  IN [lines |-> installed.lines, entries |-> installed.entries,
      exc |-> installed.exc, calls |-> invoked,
      pip |-> IF invoked = 0 THEN "n/a" ELSE pip]

CheckDependency ==
  /\ pc = "deps"
  /\ idx \in 1..Len(packages)
  /\ \E probe \in ProbeOutcomes, pip \in PipOutcomes :
       LET package_name == packages[idx][1]
           r == check_one(package_name, probe, pip)
           before == IF idx = 1
                     THEN print_step(2, "Checking and Installing Dependencies")
                     ELSE out
       IN /\ probes' = Append(probes, [probe |-> probe, pip |-> r.pip])
          /\ installs' = Append(installs, r.calls)
          /\ results' = results \o r.entries
          /\ interrupted' =
               (interrupted \/ probe = "KeyboardInterrupt"
                            \/ r.pip = "KeyboardInterrupt")
          /\ IF r.exc # "none"
             THEN /\ Exit("none", r.exc, before \o r.lines)
                  /\ UNCHANGED idx
             ELSE /\ out' = before \o r.lines
                  /\ idx' = idx + 1
                  /\ pc' = IF idx = Len(packages) THEN "summary" ELSE "deps"
                  /\ UNCHANGED << main_return, raised, exit_status >>
  /\ executed' = IF idx = 1 THEN Append(executed, "DependencyChecker") ELSE executed
  /\ UNCHANGED << version, fs, runs, launcher, env_seen, written, failed >>

\* main(): failed_packages = [pkg for pkg, success in results if not success]
failed_packages_succeeded(res) ==
  LET sel == SelectSeq(res, LAMBDA e : e[2])
  IN [k \in 1..Len(sel) |-> sel[k][1]]

failed_packages(res) ==
  LET sel == SelectSeq(res, LAMBDA e : ~e[2])
  IN [k \in 1..Len(sel) |-> sel[k][1]]

summary_lines(res) ==
  LET fp == failed_packages(res)
  IN IF fp # <<>>
     THEN << <<"\n", GlyphFail, " Failed to install packages: ">> \o Join(", ", fp),
             <<"Please install them manually using:">> >>
          \o [k \in 1..Len(fp) |-> <<"   pip install ", fp[k]>>]
     ELSE << <<"\n", GlyphOk, " All dependencies are installed">> >>

DepSummary ==
  /\ pc = "summary"
  /\ out' = out \o summary_lines(results)
  /\ failed' = IF failed_packages(results) # <<>>
               THEN failed \cup {"DependencyChecker"} ELSE failed
  /\ pc' = "streamlit"
  /\ UNCHANGED << version, fs, runs, executed, idx, results, probes, installs,
                  launcher, env_seen, written, interrupted, raised,
                  main_return, exit_status >>

\* ------------------------------------------------------------ 3. RunnerProbe
\* except clause of test_streamlit
test_streamlit_handled_all(exc) == exc # "none"

test_streamlit_handled_oserror(exc) == IsInstance(exc, "OSError")

test_streamlit_handled(exc) == IsInstance(exc, "Exception")

\* test_streamlit for one launcher behaviour: exc raised by subprocess.run
\* ("none" if it returned) and the exit status rc it returned.
test_streamlit(exc, rc) ==
  IF exc = "none"
  THEN IF rc = 0
       THEN [lines |-> << <<GlyphOk, " Streamlit is working correctly">>,
                          <<"   Version: ">> \o Strip(LauncherStdout) >>,
             ret |-> "True", exc |-> "none"]
       ELSE [lines |-> << <<GlyphFail, " Streamlit test failed">> >>,
             ret |-> "False", exc |-> "none"]
  ELSE IF test_streamlit_handled(exc)
  THEN [lines |-> << <<GlyphFail, " Streamlit test error: ", exc>> >>,
        ret |-> "False", exc |-> "none"]
  ELSE [lines |-> <<>>, ret |-> "none", exc |-> exc]

TestStreamlit ==
  /\ pc = "streamlit"
  /\ executed' = Append(executed, "RunnerProbe")
  /\ \E exc \in {"none"} \cup LauncherExceptions, rc \in LauncherReturnCodes :
       /\ exc # "none" => rc = 0
       /\ LET r == test_streamlit(exc, rc)
              lines == print_step(3, "Testing Streamlit") \o r.lines
          IN /\ launcher' = [called |-> TRUE, exc |-> exc,
                             returncode |-> IF exc = "none" THEN rc ELSE -1,
                             ret |-> r.ret]
             /\ interrupted' = (interrupted \/ exc = "KeyboardInterrupt")
             /\ IF r.exc # "none"
                THEN /\ Exit("none", r.exc, lines)
                     /\ UNCHANGED failed
                ELSE /\ out' = lines
                     /\ pc' = "env"
                     /\ failed' = IF r.ret = "False"
                                  THEN failed \cup {"RunnerProbe"} ELSE failed
                     /\ UNCHANGED << main_return, raised, exit_status >>
  \* the dependency stage's list and observations are dead from here on
  /\ results' = <<>>
  /\ probes' = <<>>
  /\ installs' = <<>>
  /\ idx' = 1
  /\ UNCHANGED << version, fs, runs, env_seen, written >>

\* ------------------------------------------------------ 4. CredentialScanner
masked_value_ge(value) ==
  IF Len(value) >= PreviewLen THEN SubSeq(value, 1, PreviewLen) \o Ellipsis ELSE value

masked_value(value) ==
  IF Len(value) > PreviewLen THEN SubSeq(value, 1, PreviewLen) \o Ellipsis ELSE value

\* Python truthiness of an os.getenv result
IsSet(value) == value # None /\ value # <<>>

env_line(description, value) ==
  IF IsSet(value)
  THEN <<GlyphOk, " ">> \o description \o <<": ">> \o masked_value(value)
  ELSE LET optional == Contains(description, OptionalMarker)
           status == IF optional THEN GlyphWarn ELSE GlyphFail
       IN <<status, " ">> \o description \o <<": Not set">>

CheckEnvVar ==
  /\ pc = "env"
  /\ idx \in 1..Len(env_vars)
  /\ \E value \in EnvValues :
       LET description == env_vars[idx][2]
           before == IF idx = 1
                     THEN print_step(4, "Checking Environment Variables")
                     ELSE out
       IN /\ env_seen' = Append(env_seen, value)
          /\ out' = Append(before, env_line(description, value))
          /\ failed' = IF IsSet(value) THEN failed
                       ELSE failed \cup {"CredentialScanner"}
  /\ executed' = IF idx = 1 THEN Append(executed, "CredentialScanner") ELSE executed
  /\ launcher' = NoLauncher
  /\ idx' = idx + 1
  /\ pc' = IF idx = Len(env_vars) THEN "template" ELSE "env"
  /\ UNCHANGED << version, fs, runs, results, probes, installs, written,
                  interrupted, raised, main_return, exit_status >>

\* --------------------------------------------------------- 5. TemplateWriter
\* except clause of create_env_template
create_env_template_handled(exc) == IsInstance(exc, "Exception")

\* open(".env.template", "w") followed by f.write(text)
open_append_and_write(prior, text) == File(prior.content \o text)

open_and_write(prior, text) == File(text)

\* The file after the guarded block: exc is raised at open() (file untouched)
\* or at write() (file already created or truncated by open()).
file_after(prior, exc, at) ==
  IF exc = "none" THEN open_and_write(prior, env_template)
  ELSE IF at = "write" THEN File(<<>>)
  ELSE prior

create_env_template(exc) ==
  IF exc = "none"
  THEN [lines |-> << <<GlyphOk, " Created .env.template file">>,
                     <<"   Copy this to .env and fill in your API keys">> >>,
        ret |-> "True", exc |-> "none"]
  ELSE IF create_env_template_handled(exc)
  THEN [lines |-> << <<GlyphFail, " Failed to create .env.template: ", exc>> >>,
        ret |-> "False", exc |-> "none"]
  ELSE [lines |-> <<>>, ret |-> "none", exc |-> exc]

CreateEnvTemplate ==
  /\ pc = "template"
  /\ executed' = Append(executed, "TemplateWriter")
  /\ \E exc \in WriteOutcomes, at \in {"open", "write"} :
       /\ exc = "none" => at = "write"
       /\ exc = "PermissionError" => at = "open"
       /\ LET r == create_env_template(exc)
              lines == print_step(5, "Creating Environment Template") \o r.lines
          IN /\ fs' = file_after(fs, exc, at)
             /\ written' = [called |-> TRUE, exc |-> exc, prior |-> fs, ret |-> r.ret]
             /\ interrupted' = (interrupted \/ exc = "KeyboardInterrupt")
             /\ IF r.exc # "none"
                THEN /\ Exit("none", r.exc, lines)
                     /\ UNCHANGED failed
                ELSE /\ out' = lines
                     /\ pc' = "finish"
                     /\ failed' = IF r.ret = "False"
                                  THEN failed \cup {"TemplateWriter"} ELSE failed
                     /\ UNCHANGED << main_return, raised, exit_status >>
  \* the credential scanner's reads are dead from here on
  /\ env_seen' = <<>>
  /\ idx' = 1
  /\ UNCHANGED << version, runs, results, probes, installs, launcher >>

\* ------------------------------------------------------- final instructions
BannerLines == print_header("Setup Complete!")

final_lines ==
  BannerLines
  \o << <<"\nNext steps:">>,
        <<"1. Copy .env.template to .env">>,
        <<"2. Fill in your API keys in the .env file">>,
        <<"3. See API_KEYS_SETUP.md for detailed instructions on getting API keys">>,
        <<"4. Run the application with: streamlit run main.py">>,
        <<"\nFor help with API keys, see: API_KEYS_SETUP.md">> >>

Finish ==
  /\ pc = "finish"
  /\ Exit("True", "none", out \o final_lines)
  /\ UNCHANGED << version, fs, runs, executed, idx, results, probes, installs,
                  launcher, env_seen, written, failed, interrupted >>

\* ------------------------------------------------------------ interruption
\* Ctrl-C delivered while main() is between the guarded calls.
Interrupt ==
  /\ pc # "exited"
  /\ interrupted' = TRUE
  /\ Exit("none", "KeyboardInterrupt", out)
  /\ UNCHANGED << version, fs, runs, executed, idx, results, probes, installs,
                  launcher, env_seen, written, failed >>

\* The script is invoked again in the same working directory.
Rerun ==
  /\ pc = "exited"
  /\ runs < MaxRuns
  /\ runs' = runs + 1
  /\ pc' = "version"
  /\ executed' = <<>>
  /\ out' = <<>>
  /\ idx' = 1
  /\ results' = <<>>
  /\ probes' = <<>>
  /\ installs' = <<>>
  /\ launcher' = NoLauncher
  /\ env_seen' = <<>>
  /\ written' = NoWrite
  /\ failed' = {}
  /\ interrupted' = FALSE
  /\ raised' = "none"
  /\ main_return' = "none"
  /\ exit_status' = -1
  /\ UNCHANGED << version, fs >>

Next ==
  \/ VersionGate
  \/ CheckDependency
  \/ DepSummary
  \/ TestStreamlit
  \/ CheckEnvVar
  \/ CreateEnvTemplate
  \/ Finish
  \/ Interrupt
  \/ Rerun

Spec == Init /\ [][Next]_vars

\* The version gate on its own, over the wider range of version triples.
InitVersion ==
  /\ Fresh
  /\ version \in WideVersions
  /\ fs = NoFile
  /\ runs = 1

NextVersion == VersionGate

SpecVersion == InitVersion /\ [][NextVersion]_vars

\* ================================================================ properties
Last(s) == s[Len(s)]
Range(s) == { s[k] : k \in DOMAIN s }
IsPrefixOf(s, t) == Len(s) <= Len(t) /\ s = SubSeq(t, 1, Len(s))

ImportFailures == { "ImportError", "ModuleNotFoundError" }

\* Every outcome seen so far by the dependency loop is one the stage handles:
\* a probe that imports or fails to import, a pip that exits zero or non-zero.
OnlyHandledDependencyOutcomes ==
  \A k \in 1..Len(probes) :
     /\ probes[k].probe \in {"none"} \cup ImportFailures
     /\ probes[k].pip \in {"n/a", "none", "CalledProcessError"}

\* C1: the stages run at most once each and in the fixed order; a run whose
\* version check fails enters no later stage and makes no pip call, no
\* launcher call, no environment read and no template write; a run whose
\* version check succeeds, and that meets only reported failures, enters all
\* five stages and main() returns True.
C1_StagesInOrder ==
  /\ IsPrefixOf(executed, Stages)
  /\ (executed # <<>> /\ ~(version.major >= 3 /\ version.minor >= 8)) =>
        /\ executed = <<"VersionGate">>
        /\ pc = "exited"
        /\ main_return = "False"
        /\ installs = <<>> /\ probes = <<>>
        /\ ~launcher.called
        /\ env_seen = <<>>
        /\ ~written.called
  /\ (/\ pc = "exited"
      /\ version.major >= 3 /\ version.minor >= 8
      /\ ~interrupted
      /\ OnlyHandledDependencyOutcomes) =>
        /\ executed = Stages
        /\ main_return = "True"

C1_Witness ==
  /\ pc = "exited"
  /\ executed = Stages
  /\ failed = {"DependencyChecker", "RunnerProbe", "CredentialScanner", "TemplateWriter"}

\* C2: whenever main() returns, with True or with False, the exit status is
\* 0; a non-zero exit status occurs only when an exception reached the driver.
C2_ExitStatus ==
  pc = "exited" =>
    /\ main_return \in {"True", "False"} => exit_status = 0
    /\ exit_status # 0 => (raised # "none" /\ main_return = "none")

C2_Witness ==
  /\ pc = "exited"
  /\ executed = <<"VersionGate">>
  /\ main_return = "False"
  /\ exit_status = 0

\* The version gate has run and reported success / failure.
GateSucceeded == executed = <<"VersionGate">> /\ pc = "deps"
GateFailed == executed = <<"VersionGate">> /\ pc = "exited" /\ main_return = "False"

\* C3 (as stated): with minor >= 8 the version gate succeeds whatever major is.
C3_Original ==
  (executed = <<"VersionGate">> /\ version.minor >= 8) => GateSucceeded

\* C3 (amended): with major >= 3 and minor >= 8 the version gate succeeds
\* whatever major is; with major < 3 it fails whatever minor is.
C3_Amended ==
  executed = <<"VersionGate">> =>
    /\ (version.major >= 3 /\ version.minor >= 8) => GateSucceeded
    /\ version.major < 3 => GateFailed

C3_Witness ==
  GateSucceeded /\ version.major = 4 /\ version.minor >= 8

\* C4 (as stated): whatever the import probes and pip invocations do, the
\* dependency stage returns and main() goes on to the RunnerProbe stage.
C4_Original ==
  (pc = "exited" /\ ~interrupted /\ "DependencyChecker" \in Range(executed)) =>
     "RunnerProbe" \in Range(executed)

\* C4 (amended): as long as every probe imports or raises ImportError and
\* every pip invocation exits zero or non-zero, the stage keeps going and
\* holds one result per visited package; any other exception from a probe or
\* from pip reaches the driver, which exits with status 1 before RunnerProbe.
C4_Amended ==
  (probes # <<>> /\ ~interrupted) =>
     IF OnlyHandledDependencyOutcomes
     THEN /\ pc \in {"deps", "summary", "streamlit"}
          /\ Len(results) = Len(probes)
          /\ raised = "none"
     ELSE /\ pc = "exited"
          /\ raised \in {Last(probes).probe, Last(probes).pip}
          /\ raised \notin {"none", "n/a"}
          /\ exit_status = 1
          /\ "RunnerProbe" \notin Range(executed)

C4_Witness ==
  /\ pc = "streamlit"
  /\ Len(probes) = Len(packages)
  /\ \A k \in 1..Len(probes) :
        probes[k].probe \in ImportFailures /\ probes[k].pip = "CalledProcessError"

AllInstalledLine == <<"\n", GlyphOk, " All dependencies are installed">>

RECURSIVE Sum(_)
Sum(s) == IF s = <<>> THEN 0 ELSE s[1] + Sum(Tail(s))

\* C5: pip is invoked exactly once for a package whose import probe failed
\* and never for one whose probe succeeded; when every probe succeeded no
\* pip invocation was made and the stage ends with the all-installed line.
C5_InstallOnlyOnProbeFailure ==
  /\ Len(installs) = Len(probes)
  /\ \A k \in 1..Len(probes) :
        /\ probes[k].probe \in ImportFailures => installs[k] = 1
        /\ probes[k].probe = "none" => installs[k] = 0
  /\ (/\ pc = "streamlit"
      /\ \A k \in 1..Len(probes) : probes[k].probe = "none") =>
        /\ Sum(installs) = 0
        /\ Last(out) = AllInstalledLine

C5_Witness ==
  /\ pc = "streamlit"
  /\ Len(probes) = Len(packages)
  /\ \A k \in 1..Len(probes) : probes[k].probe = "none"
  /\ Last(out) = AllInstalledLine

\* Positions (in table order) of the packages whose probe failed and whose
\* install failed too.
UnresolvedPositions ==
  SelectSeq([k \in 1..Len(probes) |-> k],
            LAMBDA k : /\ probes[k].probe \in ImportFailures
                       /\ probes[k].pip = "CalledProcessError")

Unresolved == [n \in 1..Len(UnresolvedPositions) |-> packages[UnresolvedPositions[n]][1]]

ExpectedSummary ==
  IF Unresolved = <<>>
  THEN << AllInstalledLine >>
  ELSE << <<"\n", GlyphFail, " Failed to install packages: ">> \o Join(", ", Unresolved),
          <<"Please install them manually using:">> >>
       \o [n \in 1..Len(Unresolved) |-> <<"   pip install ", Unresolved[n]>>]

\* C6: once the dependency stage is over, the result list has one entry per
\* table entry, in table order, False exactly for the packages whose probe
\* and install both failed; the summary names exactly those packages and
\* prints one "pip install <package>" line for each.
C6_ResultsAndSummary ==
  (pc \in {"summary", "streamlit"}) =>
     /\ Len(results) = Len(packages)
     /\ \A k \in 1..Len(packages) :
           /\ results[k][1] = packages[k][1]
           /\ results[k][2] = ~(/\ probes[k].probe \in ImportFailures
                                /\ probes[k].pip = "CalledProcessError")
     /\ pc = "streamlit" =>
           /\ Len(out) >= Len(ExpectedSummary)
           /\ SubSeq(out, Len(out) - Len(ExpectedSummary) + 1, Len(out)) = ExpectedSummary

C6_Witness ==
  /\ pc = "streamlit"
  /\ Unresolved = << packages[2][1] >>
  /\ SubSeq(out, Len(out) - 2, Len(out)) =
        << <<"\n", GlyphFail, " Failed to install packages: ", packages[2][1]>>,
           <<"Please install them manually using:">>,
           <<"   pip install ", packages[2][1]>> >>

ExpectedVersionText == SubSeq(LauncherStdout, 1, Len(LauncherStdout) - 1)

\* C7: test_streamlit returns without raising in each of its three cases and
\* main() goes on to the credential scanner: exit status 0 returns True and
\* prints the captured version; a non-zero exit status returns False with the
\* generic failure line; a raised FileNotFoundError or TimeoutExpired returns
\* False with a line carrying the exception text.
C7_LauncherOutcomes ==
  (launcher.called /\ ~interrupted) =>
     /\ pc = "env"
     /\ raised = "none"
     /\ (launcher.exc = "none" /\ launcher.returncode = 0) =>
           /\ launcher.ret = "True"
           /\ Last(out) = <<"   Version: ">> \o ExpectedVersionText
     /\ (launcher.exc = "none" /\ launcher.returncode # 0) =>
           /\ launcher.ret = "False"
           /\ Last(out) = <<GlyphFail, " Streamlit test failed">>
     /\ launcher.exc \in {"FileNotFoundError", "TimeoutExpired"} =>
           /\ launcher.ret = "False"
           /\ Last(out) = <<GlyphFail, " Streamlit test error: ", launcher.exc>>

C7_Witness ==
  /\ pc = "env"
  /\ launcher.called
  /\ launcher.exc = "TimeoutExpired"
  /\ launcher.ret = "False"

\* C8: the credential scanner prints one line per variable read: for a
\* non-empty value the success glyph and a preview that is the first 8
\* characters plus an ellipsis when the value is longer than 8 and the value
\* itself otherwise; for an absent or empty value a "Not set" line with the
\* warning glyph if the description contains "(Optional)" and the failure
\* glyph otherwise.  The stage always goes on.
C8_CredentialLines ==
  (env_seen # <<>> /\ ~interrupted) =>
     /\ pc \in {"env", "template"}
     /\ raised = "none"
     /\ Len(out) = 2 + Len(env_seen)
     /\ \A k \in 1..Len(env_seen) :
           LET value == env_seen[k]
               description == env_vars[k][2]
               line == out[2 + k]
           IN IF value # None /\ Len(value) > 0
              THEN /\ Len(value) > 8 =>
                        line = <<GlyphOk, " ">> \o description \o <<": ">>
                               \o SubSeq(value, 1, 8) \o <<".", ".", ".">>
                   /\ Len(value) <= 8 =>
                        line = <<GlyphOk, " ">> \o description \o <<": ">> \o value
              ELSE /\ Contains(description, OptionalMarker) =>
                        line = <<GlyphWarn, " ">> \o description \o <<": Not set">>
                   /\ ~Contains(description, OptionalMarker) =>
                        line = <<GlyphFail, " ">> \o description \o <<": Not set">>

C8_Witness ==
  /\ pc = "template"
  /\ env_seen = << Chars(8), Chars(20), None, None >>
  /\ out[3] = <<GlyphOk, " ">> \o env_vars[1][2] \o <<": ">> \o Chars(8)
  /\ out[5][1] = GlyphFail
  /\ out[6][1] = GlyphWarn

\* Lines of the form KEY=value: not blank, not a comment, containing "=".
CredentialLines(lines) ==
  { k \in 1..Len(lines) :
       /\ lines[k] # <<>>
       /\ lines[k][1] # "#"
       /\ \E c \in 1..Len(lines[k]) : lines[k][c] = "=" }

\* C9 (as stated): after a run of create_env_template that wrote the file, the
\* file holds the fixed template text, and it has exactly three KEY=value lines.
C9_Original ==
  (written.called /\ written.ret = "True") =>
     /\ fs = File(env_template)
     /\ Cardinality(CredentialLines(fs.content)) = 3

\* C9 (amended): after any run of create_env_template that reports success,
\* whatever the file held before and however often the script has run, the
\* file holds the fixed template text, and it has exactly four KEY=value
\* lines; a run that reports failure leaves the prior content or an empty file.
C9_Amended ==
  written.called =>
     /\ written.ret = "True" =>
           /\ fs = File(env_template)
           /\ Cardinality(CredentialLines(fs.content)) = 4
     /\ written.ret # "True" => fs \in {written.prior, File(<<>>)}

C9_Witness ==
  /\ runs = 2
  /\ written.called
  /\ written.ret = "True"
  /\ written.prior = File(env_template)
  /\ fs = File(env_template)

\* C10: a KeyboardInterrupt raised anywhere in main() - between the calls,
\* while waiting for pip, inside the launcher probe, inside the template
\* write - reaches the driver: the run is over with a non-zero exit status,
\* main() did not return, and the "Setup Complete!" banner was not printed.
C10_InterruptReachesDriver ==
  interrupted =>
     /\ pc = "exited"
     /\ raised = "KeyboardInterrupt"
     /\ exit_status # 0
     /\ main_return = "none"
     /\ Last(out) = <<"\n\n", GlyphFail, " Setup interrupted by user">>
     /\ \A k \in 1..Len(out) : out[k] # <<"  ", "Setup Complete!">>

C10_Witness ==
  /\ interrupted
  /\ launcher.called
  /\ launcher.exc = "KeyboardInterrupt"
  /\ executed = <<"VersionGate", "DependencyChecker", "RunnerProbe">>
  /\ pc = "exited"
  /\ exit_status = 1
====
